---- MODULE Spec2Model ----
(***************************************************************************)
(* Model of the shopping-list backend (src/src/main.rs): four HTTP         *)
(* handlers sharing one SQLite connection behind a std::sync::Mutex.       *)
(*                                                                         *)
(* The table shopping_items is a set of rows [id, name, is_shopped].  A    *)
(* stored is_shopped value keeps its SQLite storage class: the column is   *)
(* declared BOOLEAN (NUMERIC affinity), add_item binds the text of         *)
(* bool::to_string, and "NOT is_shopped" yields an INTEGER.                *)
(***************************************************************************)
EXTENDS Integers, Sequences, FiniteSets, TLC

\* ------------------------------------------------------------------ bounds
NumProcs == 2        \* concurrent request tasks
MaxItems == 3        \* rows the creates of the single client may add
MaxItemsConc == 2    \* rows the creates of the concurrent tasks may add

\* --------------------------------------------------------------- constants
Sentinel == -1       \* the id the swap parks the lower row at

Procs == 1..NumProcs
\* the task of the single-client specification
Client == CHOOSE p \in Procs : \A q \in Procs : p <= q
\* the names the creates carry; the body's name may be the empty string
Names == {"milk", ""}
NamesConc == {"milk"}
\* no task holds the lock
NoOne == 0

VARIABLES
    table,      \* committed contents of shopping_items
    work,       \* what the connection sees (differs from table inside a transaction)
    inTx,       \* a transaction is open on the connection
    lockHolder, \* the task holding AppState.db, or NoOne
    poisoned,   \* the Mutex was poisoned by a panic under the lock
    pc,         \* each task's position in its handler
    req,        \* the request of the task that runs its handler
    ids,        \* swap_items' local `ids` (after line 105)
    resp,       \* each task's HTTP outcome
    hist        \* history: per id, the flag given at creation and the toggles applied

vars == <<table, work, inTx, lockHolder, poisoned, pc, req, ids, resp, hist>>

\* ------------------------------------------------------------ SQL values
Text(s) == [ty |-> "TEXT", s |-> s]
Integer(s) == [ty |-> "INTEGER", s |-> s]

\* bool::to_string, bound as a text parameter (line 70)
BoolToString(b) == IF b THEN "true" ELSE "false"

\* SQLite's numeric reading of a value when it is used as a truth value:
\* text that is no number reads as 0.
IsTruthy(v) == v.s = "1"

\* SQL "NOT is_shopped" (line 82): an INTEGER 0 or 1
SqlNot(v) == IF IsTruthy(v) THEN Integer("0") ELSE Integer("1")

\* the texts a stored is_shopped may hold in a table that existed before
\* the process started (CREATE TABLE IF NOT EXISTS leaves it as it is)
StoredTexts == {"true", "TRUE", "tRuE", "1", "false", "FALSE", "0", "maybe"}

\* bug: the text is matched as it is stored
ToLowercase_Identity(s) == s

\* str::to_lowercase over the texts the model stores
ToLowercase(s) ==
    CASE s = "TRUE" -> "true"
      [] s = "tRuE" -> "true"
      [] s = "FALSE" -> "false"
      [] OTHER -> s

\* the match of lines 40-44
DecodeShopped(s) ==
    CASE ToLowercase(s) \in {"true", "1"} -> TRUE
      [] ToLowercase(s) \in {"false", "0"} -> FALSE
      [] OTHER -> FALSE

\* row.get::<String>(2) (line 39) fails on a value that is not TEXT
GetString(v) == IF v.ty = "TEXT" THEN [ok |-> TRUE, s |-> v.s] ELSE [ok |-> FALSE, s |-> ""]

\* ------------------------------------------------------------ the table
Row(i, n, v) == [id |-> i, name |-> n, is_shopped |-> v]
Ids(t) == {r.id : r \in t}
UniqueIds(t) == \A r, s \in t : r.id = s.id => r = s

Max(S) == CHOOSE x \in S : \A y \in S : y <= x
Min(S) == CHOOSE x \in S : \A y \in S : x <= y

\* the rowid SQLite assigns to an INTEGER PRIMARY KEY left NULL
NextRowId(t) == IF t = {} THEN 1 ELSE Max(Ids(t)) + 1

\* INSERT INTO shopping_items (name, is_shopped) VALUES (?1, ?2) (line 69)
Insert(t, n, b) == t \cup {Row(NextRowId(t), n, Text(BoolToString(b)))}

\* bug: the id of the request body is inserted when it is given
InsertItem_BodyId(t, item) ==
    IF item.a # 0
    THEN t \cup {Row(item.a, item.name, Text(BoolToString(item.is_shopped)))}
    ELSE Insert(t, item.name, item.is_shopped)

\* the parameters add_item binds (line 70): name and is_shopped, never item.id
InsertItem(t, item) == Insert(t, item.name, item.is_shopped)

\* bug: the WHERE clause is lost, every row is toggled
ToggleRows_NoWhere(t, i) == {[r EXCEPT !.is_shopped = SqlNot(r.is_shopped)] : r \in t}

\* bug: the WHERE clause compares with <= instead of =
ToggleRows_Upto(t, i) ==
    {IF r.id <= i THEN [r EXCEPT !.is_shopped = SqlNot(r.is_shopped)] ELSE r : r \in t}

\* UPDATE shopping_items SET is_shopped = NOT is_shopped WHERE id = ?1
ToggleRows(t, i) ==
    {IF r.id = i THEN [r EXCEPT !.is_shopped = SqlNot(r.is_shopped)] ELSE r : r \in t}

\* UPDATE shopping_items SET id = new WHERE id = old
UpdateId(t, new, old) == {IF r.id = old THEN [r EXCEPT !.id = new] ELSE r : r \in t}

\* the primary key rejects the update when another row already holds `new`
Collides(t, new, old) ==
    /\ new # old
    /\ \E r \in t : r.id = old
    /\ \E r \in t : r.id = new

RECURSIVE SortAsc(_)
SortAsc(S) == IF S = {} THEN <<>> ELSE <<Min(S)>> \o SortAsc(S \ {Min(S)})

\* bug: the two arguments are trusted, the table is not consulted
SelectIds_Trusting(t, a, b) == SortAsc({a, b})

\* bug: the lookup reads the ids BETWEEN ?1 AND ?2
SelectIds_Between(t, a, b) == SortAsc({i \in Ids(t) : a <= i /\ i <= b})

\* bug: one id is read back per argument, so an id given twice counts twice
SelectIds_Dup(t, a, b) ==
    IF a = b
    THEN (IF a \in Ids(t) THEN <<a, a>> ELSE <<>>)
    ELSE SortAsc(Ids(t) \cap {a, b})

\* SELECT id FROM shopping_items WHERE id IN (?1, ?2) ORDER BY id
SelectIds(t, a, b) == SortAsc(Ids(t) \cap {a, b})

\* bug: ORDER BY id DESC
RECURSIVE OrderById_Desc(_)
OrderById_Desc(t) ==
    IF t = {} THEN <<>>
    ELSE LET r == CHOOSE x \in t : \A y \in t : x.id >= y.id
         IN <<r>> \o OrderById_Desc(t \ {r})

\* SELECT ... FROM shopping_items ORDER BY id (line 28)
RECURSIVE OrderById(_)
OrderById(t) ==
    IF t = {} THEN <<>>
    ELSE LET r == CHOOSE x \in t : \A y \in t : x.id <= y.id
         IN <<r>> \o OrderById(t \ {r})

\* the query_map closure of lines 38-51 over the rows in id order
DecodeRow(r) ==
    [id |-> r.id, name |-> r.name, is_shopped |-> DecodeShopped(GetString(r.is_shopped).s)]

ListAll(t) ==
    IF \E r \in t : ~GetString(r.is_shopped).ok
    THEN [ok |-> FALSE, items |-> <<>>]
    ELSE [ok |-> TRUE,
          items |-> LET o == OrderById(t) IN [k \in 1..Len(o) |-> DecodeRow(o[k])]]

\* ------------------------------------------------------------ requests
NoReq == [op |-> "none", name |-> "", is_shopped |-> FALSE, a |-> 0, b |-> 0]
ListReq == [NoReq EXCEPT !.op = "list"]
\* the body of a create is a ShoppingItem: a is its id, 0 standing for null
CreateReq(i, n, f) == [NoReq EXCEPT !.op = "create", !.a = i, !.name = n, !.is_shopped = f]
\* the ids a create's body may carry: none, or one that a row may hold
BodyIds == {0, 1}
ToggleReq(i) == [NoReq EXCEPT !.op = "toggle", !.a = i]
SwapReq(i, j) == [NoReq EXCEPT !.op = "swap", !.a = i, !.b = j]

\* the requests a task may carry; creates stop when the table holds cap rows
Requests(cap, names) ==
    {ListReq}
    \cup {CreateReq(i, n, f) : i \in BodyIds,
                               n \in (IF Cardinality(table) < cap THEN names ELSE {}),
                               f \in BOOLEAN}
    \cup {ToggleReq(i) : i \in 1..cap}
    \cup {SwapReq(i, j) : i \in 1..cap, j \in 1..cap}

\* the first statement of each handler after it holds the lock
FirstPc(op) ==
    CASE op = "list" -> "list"
      [] op = "create" -> "add"
      [] op = "toggle" -> "toggle"
      [] op = "swap" -> "begin"
      [] OTHER -> "done"

SwapPcs == {"begin", "select", "upd1", "upd2", "upd3", "commit"}
InFlight(p) == pc[p] \notin {"idle", "done"}

\* ------------------------------------------------------------ the lock
\* bug: the handlers do not serialise on the lock
CanLock_Always == TRUE

\* Mutex::lock blocks until no task holds the guard
CanLock == lockHolder = NoOne

\* what the connection reads and writes: the open transaction's view, or the table
ConnView == IF inTx THEN work ELSE table

\* bug: the transaction's drop behaviour is Commit
DropTransaction_Commits ==
    /\ inTx' = FALSE
    /\ table' = (IF inTx THEN work ELSE table)
    /\ work' = (IF inTx THEN work ELSE table)

\* Transaction's Drop without commit: ROLLBACK
DropTransaction ==
    /\ inTx' = FALSE
    /\ work' = table
    /\ UNCHANGED table

\* a statement outside a transaction commits at once (autocommit)
Execute(t) ==
    IF inTx THEN work' = t /\ UNCHANGED table
    ELSE table' = t /\ work' = t

\* history of the flags: the value given at creation and the toggles applied
\* since (2 stands for any even number >= 2, 1 for any odd number)
Bump(n) == IF n = 2 THEN 1 ELSE n + 1
HistInsert(h, i, f) ==
    [j \in DOMAIN h \cup {i} |-> IF j = i THEN [orig |-> f, n |-> 0] ELSE h[j]]
HistToggle(h, i) ==
    [j \in DOMAIN h |-> IF j = i THEN [h[j] EXCEPT !.n = Bump(h[j].n)] ELSE h[j]]
HistSwap(h, lo, hi) ==
    [j \in DOMAIN h |->
        IF j = lo /\ hi \in DOMAIN h THEN h[hi]
        ELSE IF j = hi /\ lo \in DOMAIN h THEN h[lo]
        ELSE h[j]]

\* bug: a return path keeps the guard alive
Return_KeepsGuard(p, code) ==
    /\ pc' = [pc EXCEPT ![p] = "done"]
    /\ resp' = [resp EXCEPT ![p] = code]
    /\ req' = [req EXCEPT ![p] = NoReq]
    /\ ids' = [ids EXCEPT ![p] = <<>>]
    /\ lockHolder' = (IF code = "400" THEN lockHolder ELSE IF lockHolder = p THEN NoOne ELSE lockHolder)

\* a handler returns: its locals and the guard are dropped, the response is sent
Return(p, code) ==
    /\ pc' = [pc EXCEPT ![p] = "done"]
    /\ resp' = [resp EXCEPT ![p] = code]
    /\ req' = [req EXCEPT ![p] = NoReq]
    /\ ids' = [ids EXCEPT ![p] = <<>>]
    /\ lockHolder' = IF lockHolder = p THEN NoOne ELSE lockHolder

\* an unwrap() fails: the task unwinds, the connection to the client is
\* closed without a response, and a MutexGuard dropped while panicking
\* poisons the Mutex
Panic(p) ==
    /\ Return(p, "closed")
    /\ poisoned' = (poisoned \/ lockHolder = p)

\* ------------------------------------------------------------ Init
Init ==
    /\ table = {}
    /\ work = {}
    /\ inTx = FALSE
    /\ lockHolder = NoOne
    /\ poisoned = FALSE
    /\ pc = [p \in Procs |-> "idle"]
    /\ req = [p \in Procs |-> NoReq]
    /\ ids = [p \in Procs |-> <<>>]
    /\ resp = [p \in Procs |-> "pending"]
    /\ hist = <<>>

\* ------------------------------------------------------------ actions
\* a request arrives and its task waits for the lock (routes of lines 158-161)
Start(p) ==
    /\ pc[p] \in {"idle", "done"}
    /\ pc' = [pc EXCEPT ![p] = "lock"]
    /\ resp' = [resp EXCEPT ![p] = "pending"]
    /\ UNCHANGED <<table, work, inTx, lockHolder, poisoned, req, ids, hist>>

\* data.db.lock() on a poisoned Mutex: the match of lines 20-26 answers
\* 500, the unwrap() of lines 67, 80 and 95 panics
LockPoisoned(p, r) ==
    /\ IF r.op = "list"
       THEN Return(p, "500") /\ UNCHANGED poisoned
       ELSE Panic(p)
    /\ UNCHANGED <<table, work, inTx, hist>>

\* data.db.lock() succeeds: the task holds the guard and runs its handler
LockAcquired(p, r) ==
    /\ lockHolder' = p
    /\ req' = [req EXCEPT ![p] = r]
    /\ pc' = [pc EXCEPT ![p] = FirstPc(r.op)]
    /\ UNCHANGED <<table, work, inTx, poisoned, ids, resp, hist>>

\* lines 20, 67, 80, 95; the request's content plays no part before this point
LockWith(p, reqs) ==
    /\ pc[p] = "lock"
    /\ CanLock
    /\ \E r \in reqs :
        IF poisoned THEN LockPoisoned(p, r) ELSE LockAcquired(p, r)

Lock(p, cap, names) == LockWith(p, Requests(cap, names))

\* get_shopping_list, lines 28-63: the body of a 200 is ListAll(ConnView).items
List(p) ==
    /\ pc[p] = "list"
    /\ \E fault \in {"none", "prepare", "query"} :
        IF fault = "none" /\ ListAll(ConnView).ok
        THEN Return(p, "200")
        ELSE Return(p, "500")
    /\ UNCHANGED <<table, work, inTx, poisoned, hist>>

\* add_item, lines 68-76
Add(p) ==
    /\ pc[p] = "add"
    /\ \E fault \in BOOLEAN :
        IF fault
        THEN Return(p, "500") /\ UNCHANGED <<table, work, hist>>
        ELSE /\ Execute(InsertItem(ConnView, req[p]))
             /\ hist' = HistInsert(hist, NextRowId(ConnView), req[p].is_shopped)
             /\ Return(p, "200")
    /\ UNCHANGED <<inTx, poisoned>>

\* update_item_status, lines 81-89
Toggle(p) ==
    /\ pc[p] = "toggle"
    /\ \E fault \in BOOLEAN :
        IF fault
        THEN Return(p, "500") /\ UNCHANGED <<table, work, hist>>
        ELSE /\ Execute(ToggleRows(ConnView, req[p].a))
             /\ hist' = HistToggle(hist, req[p].a)
             /\ Return(p, "200")
    /\ UNCHANGED <<inTx, poisoned>>

\* an unwrap() of swap_items fails under the lock: the transaction, if
\* open, is dropped (rolled back) during unwinding
SwapPanic(p) ==
    /\ Panic(p)
    /\ DropTransaction
    /\ UNCHANGED hist

\* bug: no transaction is opened, each UPDATE commits on its own
SwapBegin_NoTransaction(p) ==
    /\ pc[p] = "begin"
    /\ pc' = [pc EXCEPT ![p] = "select"]
    /\ UNCHANGED <<table, work, inTx, lockHolder, poisoned, req, ids, resp, hist>>

\* conn.transaction().unwrap(), line 96
SwapBegin(p) ==
    /\ pc[p] = "begin"
    /\ \E fault \in BOOLEAN :
        IF fault
        THEN SwapPanic(p)
        ELSE /\ inTx' = TRUE
             /\ pc' = [pc EXCEPT ![p] = "select"]
             /\ UNCHANGED <<table, work, lockHolder, poisoned, req, ids, resp, hist>>

\* the early return of lines 107-109
NotTwo(found) == Len(found) # 2

\* swap_items from lookup to commit when no database call fails: the
\* response and the table it leaves
SwapOutcome(t, a, b) ==
    LET found == SelectIds(t, a, b) IN
    IF NotTwo(found)
    THEN [code |-> "400", table |-> t]
    ELSE LET t1 == UpdateId(t, Sentinel, found[1])
             t2 == UpdateId(t1, found[1], found[2])
             t3 == UpdateId(t2, found[2], Sentinel)
         IN IF \/ Collides(t, Sentinel, found[1])
               \/ Collides(t1, found[1], found[2])
               \/ Collides(t2, found[2], Sentinel)
            THEN [code |-> "closed", table |-> t]
            ELSE [code |-> "200", table |-> t3]

\* lines 99-111: the id lookup and the early return
SwapSelect(p) ==
    /\ pc[p] = "select"
    /\ \E fault \in BOOLEAN :
        IF fault
        THEN SwapPanic(p)
        ELSE LET found == SelectIds(ConnView, req[p].a, req[p].b) IN
             IF NotTwo(found)
             THEN /\ Return(p, "400")
                  /\ DropTransaction
                  /\ UNCHANGED <<poisoned, hist>>
             ELSE /\ ids' = [ids EXCEPT ![p] = found]
                  /\ pc' = [pc EXCEPT ![p] = "upd1"]
                  /\ UNCHANGED <<table, work, inTx, lockHolder, poisoned, req, resp, hist>>

\* one of the three UPDATE ... SET id statements, each unwrapped
SwapUpdate(p, at, new, old, next) ==
    /\ pc[p] = at
    /\ \E fault \in BOOLEAN :
        IF fault \/ Collides(ConnView, new, old)
        THEN SwapPanic(p)
        ELSE /\ Execute(UpdateId(ConnView, new, old))
             /\ pc' = [pc EXCEPT ![p] = next]
             /\ UNCHANGED <<inTx, lockHolder, poisoned, req, ids, resp, hist>>

\* bug: the lower row is not parked at the sentinel first
SwapUpd1_NoPark(p) ==
    /\ pc[p] = "upd1"
    /\ pc' = [pc EXCEPT ![p] = "upd2"]
    /\ UNCHANGED <<table, work, inTx, lockHolder, poisoned, req, ids, resp, hist>>

\* lines 114-116
SwapUpd1(p) == SwapUpdate(p, "upd1", Sentinel, ids[p][1], "upd2")
\* lines 117-122
SwapUpd2(p) == SwapUpdate(p, "upd2", ids[p][1], ids[p][2], "upd3")
\* bug: the third UPDATE names the lower id instead of the sentinel
SwapUpd3_WrongRow(p) == SwapUpdate(p, "upd3", ids[p][2], ids[p][1], "commit")
\* lines 123-125
SwapUpd3(p) == SwapUpdate(p, "upd3", ids[p][2], Sentinel, "commit")

\* transaction.commit().unwrap() and the 200 of lines 127-129
SwapCommit(p) ==
    /\ pc[p] = "commit"
    /\ \E fault \in BOOLEAN :
        IF fault
        THEN SwapPanic(p)
        ELSE /\ table' = ConnView
             /\ work' = ConnView
             /\ inTx' = FALSE
             /\ hist' = HistSwap(hist, ids[p][1], ids[p][2])
             /\ Return(p, "200")
             /\ UNCHANGED poisoned

\* the process dies at any point and main() runs again (lines 133-148):
\* the connection is reopened on the committed file, the Mutex is new,
\* and the requests in flight are gone
Crash ==
    /\ \E p \in Procs : InFlight(p)
    /\ work' = table
    /\ inTx' = FALSE
    /\ lockHolder' = NoOne
    /\ poisoned' = FALSE
    /\ pc' = [p \in Procs |-> IF InFlight(p) THEN "idle" ELSE pc[p]]
    /\ req' = [p \in Procs |-> NoReq]
    /\ ids' = [p \in Procs |-> <<>>]
    /\ UNCHANGED <<table, resp, hist>>

\* any number of tasks, requests in any interleaving
Next ==
    \/ \E p \in Procs : Start(p)
    \/ \E p \in Procs : Lock(p, MaxItemsConc, NamesConc)
    \/ \E p \in Procs : List(p)
    \/ \E p \in Procs : Add(p)
    \/ \E p \in Procs : Toggle(p)
    \/ \E p \in Procs : SwapBegin(p)
    \/ \E p \in Procs : SwapSelect(p)
    \/ \E p \in Procs : SwapUpd1(p)
    \/ \E p \in Procs : SwapUpd2(p)
    \/ \E p \in Procs : SwapUpd3(p)
    \/ \E p \in Procs : SwapCommit(p)
    \/ Crash

Spec == Init /\ [][Next]_vars

\* one client, one request after another, on a larger table
NextSeq ==
    \/ Start(Client)
    \/ Lock(Client, MaxItems, Names)
    \/ List(Client)
    \/ Add(Client)
    \/ Toggle(Client)
    \/ SwapBegin(Client)
    \/ SwapSelect(Client)
    \/ SwapUpd1(Client)
    \/ SwapUpd2(Client)
    \/ SwapUpd3(Client)
    \/ SwapCommit(Client)
    \/ Crash

SpecSeq == Init /\ [][NextSeq]_vars

\* the statements of task p's handler once it holds the lock: none of them
\* waits for anything
Step(p) ==
    \/ List(p)
    \/ Add(p)
    \/ Toggle(p)
    \/ SwapBegin(p)
    \/ SwapSelect(p)
    \/ SwapUpd1(p)
    \/ SwapUpd2(p)
    \/ SwapUpd3(p)
    \/ SwapCommit(p)

\* one request of each kind and outcome: a list, a create, a toggle, a swap
\* of two rows, a swap that matches one row or none
FairRequests ==
    {ListReq, ToggleReq(1), SwapReq(1, 2), SwapReq(1, 1)}
    \cup (IF Cardinality(table) < MaxItemsConc THEN {CreateReq(0, "milk", FALSE)} ELSE {})

\* the process keeps running; a task that holds the lock runs on, and a
\* task that waits while the lock is free again and again gets it
NextFair ==
    \/ \E p \in Procs : Start(p)
    \/ \E p \in Procs : LockWith(p, FairRequests)
    \/ \E p \in Procs : Step(p)

SpecFair ==
    /\ Init
    /\ [][NextFair]_vars
    /\ \A p \in Procs : WF_vars(Step(p))
    /\ \A p \in Procs : SF_vars(LockWith(p, FairRequests))

\* lists only, on a table that already holds rows with text flags of any
\* spelling
InitDecode ==
    /\ \E k \in 0..MaxItemsConc : \E f \in [1..k -> StoredTexts] :
        /\ table = {Row(i, "milk", Text(f[i])) : i \in 1..k}
        /\ hist = [i \in 1..k |-> [orig |-> DecodeShopped(f[i]), n |-> 0]]
    /\ work = table
    /\ inTx = FALSE
    /\ lockHolder = NoOne
    /\ poisoned = FALSE
    /\ pc = [p \in Procs |-> "idle"]
    /\ req = [p \in Procs |-> NoReq]
    /\ ids = [p \in Procs |-> <<>>]
    /\ resp = [p \in Procs |-> "pending"]

NextDecode ==
    \/ \E p \in Procs : Start(p)
    \/ \E p \in Procs : LockWith(p, {ListReq})
    \/ \E p \in Procs : List(p)
    \/ Crash

SpecDecode == InitDecode /\ [][NextDecode]_vars

\* ============================================================ properties
RowAt(t, i) == CHOOSE r \in t : r.id = i

\* t with the name and is_shopped stored under a and under b exchanged
Exchanged(t, a, b) ==
    {IF r.id = a THEN [RowAt(t, b) EXCEPT !.id = a]
     ELSE IF r.id = b THEN [RowAt(t, a) EXCEPT !.id = b]
     ELSE r : r \in t}

\* C1: a swap(a, b) of two distinct existing ids that returns 200 leaves
\* under each of the two ids the name and is_shopped that were under the
\* other, and every other row as it was.
C1_SwapExchanges ==
    [][\A p \in Procs :
        (/\ pc[p] \in SwapPcs
         /\ resp'[p] = "200"
         /\ req[p].a # req[p].b
         /\ {req[p].a, req[p].b} \subseteq Ids(table))
        => table' = Exchanged(table, req[p].a, req[p].b)]_vars

\* a swap of two rows that differ, with a third row present, is about to commit
C1_Witness ==
    \E p \in Procs :
        /\ pc[p] = "commit"
        /\ Cardinality(table) = 3
        /\ work # table
        /\ work = Exchanged(table, req[p].a, req[p].b)
        /\ req[p].a > req[p].b

\* C2: a swap(a, b) with a or b absent changes nothing in the table at any
\* of its steps, and when its lookup has run it answers 400 with the
\* transaction rolled back.
AbsentArg(p) == ~({req[p].a, req[p].b} \subseteq Ids(table))

C2_SwapNotFound ==
    [][\A p \in Procs :
        (req[p].op = "swap" /\ AbsentArg(p))
        => /\ table' = table
           /\ resp'[p] # "200"
           /\ (pc[p] = "select" /\ pc'[p] # "idle" /\ resp'[p] # "closed")
              => (resp'[p] = "400" /\ pc'[p] = "done" /\ ~inTx' /\ work' = table)]_vars

\* a swap naming one existing and one absent id has opened its transaction
\* and is at its lookup
C2_Witness ==
    \E p \in Procs :
        /\ pc[p] = "select"
        /\ inTx
        /\ req[p].a \in Ids(table)
        /\ req[p].b \notin Ids(table)

\* C3: while a swap is between its first statement and its commit, every
\* step other than its successful commit (a statement that runs, a failing
\* statement, the early return, a crash) leaves the committed table as it
\* is, and when the swap ends that way the connection sees the committed
\* table again.
C3_SwapRollsBack ==
    [][\A p \in Procs :
        (pc[p] \in SwapPcs /\ ~(pc[p] = "commit" /\ resp'[p] = "200"))
        => /\ table' = table
           /\ pc'[p] \notin SwapPcs => (~inTx' /\ work' = table)]_vars

\* two updates of a swap have run inside its transaction, whose view now
\* differs from the committed table; the third update or the commit may fail
C3_Witness ==
    \E p \in Procs :
        /\ pc[p] = "upd3"
        /\ inTx
        /\ Ids(work) # Ids(table)
        /\ Cardinality(table) = 2

\* C4: the committed table never holds two rows with one id nor a row at
\* the sentinel, and no step taken while a swap is in progress (its own
\* steps, its abort, a crash) changes the set of ids.
C4_IdsPreserved ==
    /\ [](UniqueIds(table) /\ Sentinel \notin Ids(table))
    /\ [][(\E p \in Procs : pc[p] \in SwapPcs) => Ids(table') = Ids(table)]_vars

\* a swap has parked the lower row at the sentinel inside its transaction
C4_Witness ==
    \E p \in Procs :
        /\ pc[p] = "upd2"
        /\ Sentinel \in Ids(work)
        /\ Sentinel \notin Ids(table)

\* C5: when a list, create or toggle statement runs, no other task is
\* inside a swap and the connection shows no open transaction and no row at
\* the sentinel; two tasks are never both past the lock.
PastLock(p) == pc[p] \notin {"idle", "lock", "done"}

C5_SwapNotInterleaved ==
    /\ [](\A p, q \in Procs : (PastLock(p) /\ PastLock(q)) => p = q)
    /\ [][\A q \in Procs :
            (pc[q] \in {"list", "add", "toggle"} /\ pc'[q] = "done")
            => /\ \A p \in Procs \ {q} : pc[p] \notin SwapPcs
               /\ ~inTx
               /\ Sentinel \notin Ids(ConnView)
               /\ ListAll(ConnView).ok
                  => \A k \in DOMAIN ListAll(ConnView).items :
                        ListAll(ConnView).items[k].id # Sentinel]_vars

\* a task waits for the lock while another is between the swap's updates
C5_Witness ==
    \E p, q \in Procs :
        /\ p # q
        /\ pc[p] \in {"upd2", "upd3"}
        /\ pc[q] = "lock"

\* C6 as claimed: a task whose lock acquisition fails answers 500 and
\* touches nothing.
C6_PoisonedLockIs500 ==
    [][\A p \in Procs :
        (pc[p] = "lock" /\ pc'[p] = "done")
        => (resp'[p] = "500" /\ table' = table /\ work' = work)]_vars

\* C7 as claimed: a swap ends with one of 200, 400, 500; 200 only from its
\* commit, 400 only from a lookup that matched fewer than two rows.
C7_SwapResponses ==
    [][\A p \in Procs :
        (pc[p] \in SwapPcs /\ pc'[p] = "done")
        => /\ resp'[p] \in {"200", "400", "500"}
           /\ resp'[p] = "200" => pc[p] = "commit"
           /\ resp'[p] = "400"
              => (pc[p] = "select"
                  /\ Len(SelectIds(ConnView, req[p].a, req[p].b)) < 2)]_vars

\* what a list reports for id i, given that the list succeeds
Listed(t, i) == DecodeRow(RowAt(t, i)).is_shopped

\* C8 as claimed: after a successful toggle of an existing id the list
\* succeeds and reports the negation of what it reported before.
C8_ToggleNegatesListed ==
    [][\A p \in Procs :
        (/\ pc[p] = "toggle"
         /\ resp'[p] = "200"
         /\ req[p].a \in Ids(table)
         /\ ListAll(table).ok)
        => (/\ ListAll(table').ok
            /\ Listed(table', req[p].a) = ~Listed(table, req[p].a))]_vars

\* C9 as claimed: a row toggled an even number of times (at least two) is
\* listed with the is_shopped it was created with.
C9_TwoTogglesRestore ==
    \A r \in table :
        (r.id \in DOMAIN hist /\ hist[r.id].n = 2)
        => (GetString(r.is_shopped).ok /\ DecodeRow(r).is_shopped = hist[r.id].orig)

\* C10: a toggle of an id that matches no row, whose statement runs without
\* a storage fault, answers 200 and leaves the table as it was.
C10_ToggleAbsentNoOp ==
    [][\A p \in Procs :
        (/\ pc[p] = "toggle"
         /\ pc'[p] = "done"
         /\ req[p].a \notin Ids(table)
         /\ resp'[p] # "500")
        => (resp'[p] = "200" /\ table' = table /\ work' = work)]_vars

\* a toggle of an absent id is at its statement, on a table that has rows to spoil
C10_Witness ==
    \E p \in Procs :
        /\ pc[p] = "toggle"
        /\ req[p].a \notin Ids(table)
        /\ Cardinality(table) = 2

\* C11: a list that answers 200 returns every row of the table exactly
\* once, in strictly ascending order of the rows' ids.
C11_ListOrdered ==
    [][\A p \in Procs :
        (pc[p] = "list" /\ resp'[p] = "200")
        => LET items == ListAll(ConnView).items IN
           /\ Len(items) = Cardinality(table)
           /\ \A j, k \in DOMAIN items : j < k => items[j].id < items[k].id
           /\ {<<items[k].id, items[k].name>> : k \in DOMAIN items}
                = {<<r.id, r.name>> : r \in table}]_vars

\* a list is at its query on a table of three rows it can decode
C11_Witness ==
    \E p \in Procs :
        /\ pc[p] = "list"
        /\ Cardinality(table) = 3
        /\ ListAll(table).ok

\* C12: a create that answers 200 adds exactly one row; its id is 1 on an
\* empty table and otherwise one more than the greatest id, so it differs
\* from every id in the table, whatever id the request body carried and
\* whatever swaps came before.
C12_CreateAssignsFreshId ==
    [][\A p \in Procs :
        (pc[p] = "add" /\ resp'[p] = "200")
        => /\ table \subseteq table'
           /\ Cardinality(table') = Cardinality(table) + 1
           /\ \A r \in table' \ table :
                /\ r.id \notin Ids(table)
                /\ \A i \in Ids(table) : r.id > i
                /\ table = {} => r.id = 1
                /\ r.name = req[p].name]_vars

\* a create whose body names the id of a live row is at its INSERT
C12_Witness ==
    \E p \in Procs :
        /\ pc[p] = "add"
        /\ req[p].a \in Ids(table)
        /\ Cardinality(table) = 2

\* the flag the claim gives for a stored text
ClaimedFlag(s) == s \in {"true", "TRUE", "tRuE", "1"}

\* C13: the list decodes "true" and "1" in any letter case to true and
\* every other text ("false", "0", "maybe") to false; no text makes the
\* decoding fail.
C13_LenientDecoding ==
    [][\A p \in Procs :
        (pc[p] = "list" /\ pc'[p] = "done")
        => /\ (\A r \in table : r.is_shopped.ty = "TEXT") => ListAll(ConnView).ok
           /\ resp'[p] = "200"
              => \A k \in DOMAIN ListAll(ConnView).items :
                    ListAll(ConnView).items[k].is_shopped
                        = ClaimedFlag(RowAt(table, ListAll(ConnView).items[k].id).is_shopped.s)]_vars

\* a list has answered 200 on a table that holds "TRUE" and "maybe"
C13_Witness ==
    \E p \in Procs :
        /\ pc[p] = "done"
        /\ resp[p] = "200"
        /\ \E r \in table : r.is_shopped = Text("TRUE")
        /\ \E r \in table : r.is_shopped = Text("maybe")

\* C14 as claimed: a create with an empty name is not answered 200 and
\* inserts no row.
C14_EmptyNameRejected ==
    [][\A p \in Procs :
        (pc[p] = "add" /\ req[p].name = "" /\ pc'[p] = "done")
        => (resp'[p] # "200" /\ table' = table)]_vars

\* C15: every id of the committed table is non-negative and none is the
\* sentinel; and whenever a swap is about to run one of its three updates,
\* the id that update moves a row to is held by no other row, so the
\* primary key cannot reject it.
C15_NoCollisionInSwap ==
    /\ \A r \in table : r.id >= 0 /\ r.id # Sentinel
    /\ \A p \in Procs :
        /\ pc[p] = "upd1" => ~Collides(ConnView, Sentinel, ids[p][1])
        /\ pc[p] = "upd2" => ~Collides(ConnView, ids[p][1], ids[p][2])
        /\ pc[p] = "upd3" => ~Collides(ConnView, ids[p][2], Sentinel)

\* on a table of three rows the swap's third update is due: one row sits
\* at the sentinel and the higher id is free
C15_Witness ==
    \E p \in Procs :
        /\ pc[p] = "upd3"
        /\ Cardinality(table) = 3
        /\ Sentinel \in Ids(work)
        /\ ids[p][2] \notin Ids(work)

\* C16: the tasks past the lock are exactly the one that holds it (so at
\* most one, and none keeps it after its handler has returned or unwound);
\* a task takes the lock only from waiting for it; and every task that
\* waits for the lock gets past lock(), and every request ends.
C16_LockDiscipline ==
    /\ [](\A p \in Procs : (lockHolder = p) <=> PastLock(p))
    /\ [][\A p \in Procs :
            (lockHolder' = p /\ lockHolder # p) => (pc[p] = "lock" /\ pc'[p] # "lock")]_vars
    /\ \A p \in Procs : (pc[p] = "lock") ~> (pc[p] # "lock")
    /\ \A p \in Procs : (pc[p] # "idle") ~> (pc[p] = "done")

\* a task waits for the lock while another has just been sent away with
\* the swap's early 400
C16_Witness ==
    \E p, q \in Procs :
        /\ pc[p] = "lock"
        /\ pc[q] = "done"
        /\ resp[q] = "400"
        /\ lockHolder = NoOne

\* C17: every swap that answers 200 or 400 leaves the table and the answer
\* that the handler's statements give for its arguments; for these
\* arguments in the other order the table and the answer are the same; and
\* after a 200 the same swap once more answers 200 and gives back the
\* table as it was before.
C17_SwapSymmetricInvolution ==
    [][\A p \in Procs :
        (pc[p] \in SwapPcs /\ pc'[p] = "done" /\ resp'[p] \in {"200", "400"})
        => LET a == req[p].a
               b == req[p].b
               out == SwapOutcome(table, a, b)
           IN /\ table' = out.table
              /\ resp'[p] = out.code
              /\ SwapOutcome(table, b, a) = out
              /\ out.code = "200"
                 => SwapOutcome(out.table, a, b) = [code |-> "200", table |-> table]]_vars

\* a swap whose first argument is the higher id is at its commit and has
\* exchanged the two rows in the transaction
C17_Witness ==
    \E p \in Procs :
        /\ pc[p] = "commit"
        /\ req[p].a > req[p].b
        /\ work # table
        /\ work = SwapOutcome(table, req[p].b, req[p].a).table

\* C18: a swap given the same id twice never reaches an update and never
\* changes the table; it ends with 400 (or, when opening the transaction
\* or the lookup fails, with the closed connection of C7), not with 200.
C18_SwapSameIdNotFound ==
    [][\A p \in Procs :
        (req[p].op = "swap" /\ req[p].a = req[p].b)
        => /\ table' = table
           /\ pc'[p] \notin {"upd1", "upd2", "upd3", "commit"}
           /\ pc'[p] = "done" => resp'[p] \in {"400", "closed"}
           /\ (pc[p] = "select" /\ pc'[p] = "done" /\ resp'[p] # "closed")
              => (resp'[p] = "400" /\ ~inTx' /\ work' = table)]_vars

\* a swap that names the id of a live row twice is at its lookup
C18_Witness ==
    \E p \in Procs :
        /\ pc[p] = "select"
        /\ inTx
        /\ req[p].a = req[p].b
        /\ req[p].a \in Ids(table)

\* the number of rows of t that carry the name n and the flag v
PayloadCount(t, n, v) == Cardinality({r \in t : r.name = n /\ r.is_shopped = v})
SamePayloads(t, u) ==
    /\ Cardinality(t) = Cardinality(u)
    /\ \A r \in t \cup u :
        PayloadCount(t, r.name, r.is_shopped) = PayloadCount(u, r.name, r.is_shopped)

\* C19: a toggle keeps the ids, the number of rows, every row other than
\* the one named and that row's name; no step of a swap changes the number
\* of rows or how many rows carry each (name, is_shopped) pair, in the
\* table or in what the connection sees; a create keeps every row there
\* was and adds at most one.
C19_FrameEffects ==
    [][\A p \in Procs :
        /\ pc[p] = "toggle"
           => /\ Ids(table') = Ids(table)
              /\ Cardinality(table') = Cardinality(table)
              /\ \A r \in table :
                    IF r.id = req[p].a
                    THEN \E u \in table' : u.id = r.id /\ u.name = r.name
                    ELSE r \in table'
        /\ pc[p] \in SwapPcs
           => /\ SamePayloads(table, table')
              /\ SamePayloads(ConnView, ConnView')
        /\ pc[p] = "add"
           => /\ table \subseteq table'
              /\ Cardinality(table') <= Cardinality(table) + 1]_vars

\* a toggle of a live row is at its UPDATE on a table of several rows
C19_Witness ==
    \E p \in Procs :
        /\ pc[p] = "toggle"
        /\ req[p].a \in Ids(table)
        /\ Cardinality(table) >= 2
        /\ \E r \in table : r.id > req[p].a

====
